---- MODULE Spec2Model ----
(***************************************************************************)
(* The VideoConverter React component: engine bootstrap (loadFfmpeg and    *)
(* the mount effect), file intake (handleFileChange), the conversion       *)
(* attempt (convertToGif) and the conditional rendering of the card.       *)
(*                                                                         *)
(* The repository holds two revisions of the component:                    *)
(*   "tsx"     src/src/components/VideoConverter.tsx                       *)
(*   "part000" src/unnamed/part_000, lines 42-298                          *)
(* A behaviour runs one of them; `revision` says which.                    *)
(*                                                                         *)
(* One action is one synchronous run of component code: an event handler,  *)
(* or the continuation of an async function from one await to the next.    *)
(* React batches the setState calls of such a run and re-renders, so the   *)
(* rendered card is a function of the state variables after each action.   *)
(*                                                                         *)
(* The mount effect runs once, or twice in a row on the same component     *)
(* instance when React StrictMode is on (development builds); `strictMode` *)
(* says which.  The engine is the external @ffmpeg/ffmpeg instance: a call *)
(* to it is under way until its promise settles, and the engine emits log  *)
(* and progress events only while one of its calls is under way.           *)
(*                                                                         *)
(* A text (message, log line, error description) is a sequence of chunks   *)
(* whose concatenation is the JavaScript string.  The chunks are cut so    *)
(* that each pattern the code tests for ("Error" as a prefix, "Loading     *)
(* FFMPEG" as a substring) is a chunk of its own wherever it occurs.       *)
(***************************************************************************)
EXTENDS Integers, Sequences, FiniteSets, TLC

VARIABLES
  revision,      \* which revision of the component runs
  strictMode,    \* React StrictMode (development): mount effects run twice
  effects,       \* number of times the mount effect has run
  ffmpegRef,     \* ffmpegRef.current
  listeners,     \* listeners registered on the engine, per event
  loads,         \* one entry per loadFfmpeg invocation: where it stands
  loadCalls,     \* number of calls of ffmpeg.load
  ffmpegLoaded,  \* useState
  videoFile,     \* useState
  gifUrl,        \* useState
  isConverting,  \* useState
  progress,      \* useState
  message,       \* useState
  fs,            \* the engine's virtual filesystem: path -> content
  conv,          \* the convertToGif invocations: slot -> where it stands
  final,         \* the final text of the attempt that ended last, until the next user action
  last           \* the operation that ran last

vars == <<revision, strictMode, effects, ffmpegRef, listeners, loads, loadCalls,
          ffmpegLoaded, videoFile, gifUrl, isConverting, progress, message,
          fs, conv, final, last>>

appState == <<ffmpegLoaded, videoFile, gifUrl, isConverting, progress, message>>

\* null, for the values that are objects or strings other than the message
Null == [null |-> TRUE]

\* a null message: the text of no chunks ("" is <<"">>); the code tells the two
\* apart nowhere (both are falsy, and message?.startsWith, message?.includes
\* are falsy on both)
NullText == <<>>

\* new FFmpeg()
FFmpegInstance == [engine |-> "FFmpeg"]

(***************************************************************************)
(* Bounds                                                                  *)
(***************************************************************************)
\* convertToGif invocations that can be under way at once in the model
MaxInFlight == 2
\* files the user can pick from
NumFiles == 2

Revisions == {"tsx", "part000"}

\* File names, as the parts name.split(".") gives.
FileNames == << <<"clip", "mp4">>, <<"video">>, <<"my", "talk", "mov">>, <<"a", "mp4">> >>

Files == {[name |-> FileNames[i], data |-> i] : i \in 1..NumFiles}

\* Values a failing call can throw.
Errors == {[name |-> "Error", message |-> "failed"], [name |-> "TypeError", message |-> ""]}

\* Lines the engine can log.
LogMessages == { <<"frame=   15 fps=0.0">>, <<"Error", " opening input file">> }

ExitCodes == {0, 1}

\* Progress values the engine reports, in eighths: p = k / 8.
ProgressEighths == {0, 1, 5, 8}

(***************************************************************************)
(* Texts                                                                   *)
(***************************************************************************)
\* `${error}`: Error.prototype.toString of the thrown value.
ErrorText(e) ==
  IF e.name = "" THEN <<e.message>>
  ELSE IF e.message = "" THEN <<e.name>>
  ELSE <<e.name, ": ", e.message>>

MsgLoading == <<"Loading FFMPEG", ".WASM (ffmpeg.wasm)... This may take a moment.">>
MsgLoaded == <<"FFMPEG loaded successfully!">>
MsgLoadError(e) == <<"Error", " loading FFMPEG: ">> \o ErrorText(e)
MsgSelected == <<"Video file selected.">>
MsgNotLoaded == <<"FFMPEG is not loaded yet. Please wait.">>
MsgNoFile == <<"Please select a video file first.">>
MsgStarting == <<"Starting conversion...">>
MsgRunning == <<"Running FFMPEG command...">>
MsgReading == <<"Conversion complete! Reading output...">>
MsgSuccess == <<"GIF generated successfully!">>
MsgConvError(e) == <<"Conversion error: ">> \o ErrorText(e)

\* JavaScript truthiness of a string-or-null: null and "" are falsy.
Truthy(m) == m # NullText /\ m # <<"">>

\* message?.startsWith(p)
StartsWith(m, p) == Len(m) > 0 /\ m[1] = p

\* message?.includes(p)
Includes(m, p) == \E i \in 1..Len(m) : m[i] = p

(***************************************************************************)
(* Files and the engine's filesystem                                       *)
(***************************************************************************)
\* "input." + videoFile.name.split(".").pop()
InputFileName(file) == "input." \o file.name[Len(file.name)]

outputFileName == "output.gif"

Paths == {InputFileName(f) : f \in Files} \cup {outputFileName}

\* fetchFile(videoFile): the bytes of the file.
Bytes(file) == [bytesOf |-> file.data]

\* What a successful run of the fixed command leaves in the output file.
Gif(bytes) == [gifOf |-> bytes]

\* URL.createObjectURL(new Blob([data], {type: "image/gif"}))
BlobUrl(data) == [blob |-> data, type |-> "image/gif"]

\* Math.round(p * 100) for p = k / 8: 100 * k / 8 rounded to the nearest
\* integer, a half rounded up
RoundPercent(k) == (200 * k + 8) \div 16

(***************************************************************************)
(* Rendering: what the returned JSX shows, as a function of the state      *)
(***************************************************************************)
AlertProps(m) ==
  [variant |-> IF StartsWith(m, "Error") THEN "destructive" ELSE "default",
   title |-> IF StartsWith(m, "Error") THEN "Error" ELSE "Status",
   description |-> m]

\* the status banner at the top of the card
StatusAlertRendered ==
  IF revision = "tsx"
  THEN ~ffmpegLoaded /\ Truthy(message)
  ELSE (~ffmpegLoaded \/ Includes(message, "Loading FFMPEG")) /\ Truthy(message)

\* the banner at the bottom of the card (part_000 only)
FinalAlertRendered ==
  /\ revision = "part000"
  /\ ffmpegLoaded
  /\ Truthy(message)
  /\ ~Includes(message, "Loading FFMPEG")
  /\ ~isConverting
  /\ progress = 100

Alerts ==
  (IF StatusAlertRendered THEN {AlertProps(message)} ELSE {})
    \cup (IF FinalAlertRendered THEN {AlertProps(message)} ELSE {})

FileInputRendered == ffmpegLoaded

FileInputDisabled == isConverting

ConvertButtonRendered == ffmpegLoaded /\ videoFile # Null /\ ~isConverting

ConvertButtonDisabled == videoFile = Null \/ isConverting \/ ~ffmpegLoaded

ProgressBlockRendered ==
  IF revision = "tsx"
  THEN (isConverting \/ progress > 0) /\ ffmpegLoaded
  ELSE (isConverting \/ (progress > 0 /\ progress < 100)) /\ ffmpegLoaded

ResultRendered == gifUrl # Null /\ ~isConverting

(***************************************************************************)
(* Initial state: the component as constructed, before its mount effect    *)
(***************************************************************************)
IdleConv == [pc |-> "idle", file |-> Null, bytes |-> Null, trace |-> <<>>, error |-> Null]

\* the convertToGif invocations that have not reached the end of their finally block
InFlight == {s \in 1..MaxInFlight : conv[s].pc \in {"fetchFile", "writeFile", "exec", "readFile"}}

\* the engine is working on a call: only then does it emit log and progress events
EngineBusy ==
  \/ \E i \in DOMAIN loads : loads[i].pc = "load"
  \/ \E s \in 1..MaxInFlight : conv[s].pc \in {"writeFile", "exec", "readFile"}

Init ==
  /\ revision \in Revisions
  /\ strictMode \in BOOLEAN
  /\ effects = 0
  /\ ffmpegRef = IF revision = "tsx" THEN FFmpegInstance ELSE Null
  /\ listeners = [log |-> 0, progress |-> 0]
  /\ loads = <<>>
  /\ loadCalls = 0
  /\ ffmpegLoaded = FALSE
  /\ videoFile = Null
  /\ gifUrl = Null
  /\ isConverting = FALSE
  /\ progress = 0
  /\ message = NullText
  /\ fs = [p \in Paths |-> Null]
  /\ conv = [s \in 1..MaxInFlight |-> IdleConv]
  /\ final = NullText
  /\ last = [op |-> "init"]

\* how often React runs a mount effect
EffectRuns == IF strictMode THEN 2 ELSE 1

Mounted == effects = EffectRuns

(***************************************************************************)
(* Engine bootstrap                                                        *)
(***************************************************************************)
\* loadFfmpeg, up to its first await: the instance, the message, the two
\* listeners, and the first toBlobURL under way.
LoadFfmpegStart ==
  /\ ffmpegRef' = FFmpegInstance
  /\ message' = MsgLoading
  /\ listeners' = [log |-> listeners.log + 1, progress |-> listeners.progress + 1]
  /\ loads' = Append(loads, [pc |-> "coreURL", error |-> Null])

\* the body of the mount effect
Effect ==
  /\ effects < EffectRuns
  /\ effects' = effects + 1
  /\ IF revision = "tsx" \/ ffmpegRef = Null
     THEN LoadFfmpegStart
     ELSE UNCHANGED <<ffmpegRef, message, listeners, loads>>
  /\ last' = [op |-> "effect"]
  /\ UNCHANGED <<revision, strictMode, loadCalls, ffmpegLoaded, videoFile, gifUrl,
                 isConverting, progress, fs, conv, final>>

\* toBlobURL of ffmpeg-core.js resolves: toBlobURL of ffmpeg-core.wasm starts
CoreURLResolved(i) ==
  /\ Mounted
  /\ loads[i].pc = "coreURL"
  /\ loads' = [loads EXCEPT ![i].pc = "wasmURL"]
  /\ last' = [op |-> "load.step"]
  /\ UNCHANGED <<revision, strictMode, effects, ffmpegRef, listeners, loadCalls,
                 ffmpegLoaded, videoFile, gifUrl, isConverting, progress, message,
                 fs, conv, final>>

\* toBlobURL of ffmpeg-core.wasm resolves: ffmpeg.load is called
WasmURLResolved(i) ==
  /\ Mounted
  /\ loads[i].pc = "wasmURL"
  /\ loads' = [loads EXCEPT ![i].pc = "load"]
  /\ loadCalls' = loadCalls + 1
  /\ last' = [op |-> "load.step"]
  /\ UNCHANGED <<revision, strictMode, effects, ffmpegRef, listeners,
                 ffmpegLoaded, videoFile, gifUrl, isConverting, progress, message,
                 fs, conv, final>>

\* ffmpeg.load resolves
LoadResolved(i) ==
  /\ Mounted
  /\ loads[i].pc = "load"
  /\ loads' = [loads EXCEPT ![i].pc = "loaded"]
  /\ ffmpegLoaded' = TRUE
  /\ message' = MsgLoaded
  /\ last' = [op |-> "load.ok"]
  /\ UNCHANGED <<revision, strictMode, effects, ffmpegRef, listeners, loadCalls,
                 videoFile, gifUrl, isConverting, progress, fs, conv, final>>

\* the catch block of loadFfmpeg: a toBlobURL or ffmpeg.load threw e
LoadThrown(i, e) ==
  /\ Mounted
  /\ loads[i].pc \in {"coreURL", "wasmURL", "load"}
  /\ loads' = [loads EXCEPT ![i] = [pc |-> "failed", error |-> e]]
  /\ message' = MsgLoadError(e)
  /\ ffmpegLoaded' = FALSE
  /\ last' = [op |-> "load.throw", error |-> e]
  /\ UNCHANGED <<revision, strictMode, effects, ffmpegRef, listeners, loadCalls,
                 videoFile, gifUrl, isConverting, progress, fs, conv, final>>

(***************************************************************************)
(* Engine notifications                                                    *)
(***************************************************************************)
\* the "log" listener: setMessage(logMessage)
LogListener(logMessage) == message' = logMessage

\* the "progress" listener: setProgress(Math.round(p * 100))
ProgressListener(k) == progress' = RoundPercent(k)

LogNotification(logMessage) ==
  /\ Mounted
  /\ listeners.log > 0
  /\ EngineBusy
  /\ LogListener(logMessage)
  /\ last' = [op |-> "log"]
  /\ UNCHANGED <<revision, strictMode, effects, ffmpegRef, listeners, loads, loadCalls,
                 ffmpegLoaded, videoFile, gifUrl, isConverting, progress, fs, conv, final>>

ProgressNotification(k) ==
  /\ Mounted
  /\ listeners.progress > 0
  /\ EngineBusy
  /\ ProgressListener(k)
  /\ last' = [op |-> "progress"]
  /\ UNCHANGED <<revision, strictMode, effects, ffmpegRef, listeners, loads, loadCalls,
                 ffmpegLoaded, videoFile, gifUrl, isConverting, message, fs, conv, final>>

(***************************************************************************)
(* File intake                                                             *)
(***************************************************************************)
\* handleFileChange without setGifUrl(null)
SelectFileKeepsGif(file) ==
  /\ videoFile' = file
  /\ gifUrl' = gifUrl
  /\ message' = MsgSelected
  /\ progress' = 0

\* the setState calls of handleFileChange for a file
SelectFile(file) ==
  /\ videoFile' = file
  /\ gifUrl' = Null
  /\ message' = MsgSelected
  /\ progress' = 0

\* handleFileChange; file is event.target.files?.[0], Null when there is none
HandleFileChange(file) ==
  /\ Mounted
  /\ FileInputRendered
  /\ ~FileInputDisabled
  /\ IF file # Null
     THEN /\ SelectFile(file)
          /\ final' = NullText
          /\ last' = [op |-> "change", file |-> file]
     ELSE /\ UNCHANGED <<videoFile, gifUrl, message, progress, final>>
          /\ last' = [op |-> "change.none"]
  /\ UNCHANGED <<revision, strictMode, effects, ffmpegRef, listeners, loads, loadCalls,
                 ffmpegLoaded, isConverting, fs, conv>>

(***************************************************************************)
(* The conversion attempt                                                  *)
(***************************************************************************)
\* the slot a new invocation of convertToGif takes
FreeSlots == (1..MaxInFlight) \ InFlight

NextSlot == CHOOSE s \in FreeSlots : \A r \in FreeSlots : s <= r

\* a catch block that shows the error without its prefix
CatchBlockBareText(e) ==
  /\ message' = ErrorText(e)
  /\ gifUrl' = Null

\* catch (error) { ... }
CatchBlock(e) ==
  /\ message' = MsgConvError(e)
  /\ gifUrl' = Null

\* a finally block that forgets setIsConverting(false)
FinallyBlockNoReset ==
  /\ isConverting' = isConverting
  /\ progress' = 100

\* finally { ... }
FinallyBlock ==
  /\ isConverting' = FALSE
  /\ progress' = 100

\* opening an attempt without setIsConverting(true)
StartAttemptNoFlag ==
  /\ isConverting' = isConverting
  /\ gifUrl' = Null
  /\ progress' = 0
  /\ message' = MsgStarting

\* the setState calls that open an attempt, after the two guards
StartAttempt ==
  /\ isConverting' = TRUE
  /\ gifUrl' = Null
  /\ progress' = 0
  /\ message' = MsgStarting

\* convertToGif from the click to its first await (fetchFile under way)
ConvertToGif ==
  /\ Mounted
  /\ ConvertButtonRendered
  /\ ~ConvertButtonDisabled
  /\ FreeSlots # {}
  /\ final' = NullText
  /\ IF (revision = "part000" /\ ffmpegRef = Null) \/ ~ffmpegLoaded
     THEN /\ message' = MsgNotLoaded
          /\ last' = [op |-> "click.notLoaded"]
          /\ UNCHANGED <<isConverting, gifUrl, progress, conv>>
     ELSE IF videoFile = Null
     THEN /\ message' = MsgNoFile
          /\ last' = [op |-> "click.noFile"]
          /\ UNCHANGED <<isConverting, gifUrl, progress, conv>>
     ELSE /\ StartAttempt
          /\ conv' = [conv EXCEPT ![NextSlot] =
                        [pc |-> "fetchFile", file |-> videoFile, bytes |-> Null,
                         trace |-> <<>>, error |-> Null]]
          /\ last' = [op |-> "click"]
  /\ UNCHANGED <<revision, strictMode, effects, ffmpegRef, listeners, loads, loadCalls,
                 ffmpegLoaded, videoFile, fs>>

\* fetchFile(videoFile) resolves: ffmpeg.writeFile(inputFileName, bytes) is called
FetchFileResolved(s) ==
  /\ conv[s].pc = "fetchFile"
  /\ conv' = [conv EXCEPT ![s].pc = "writeFile",
                          ![s].bytes = Bytes(conv[s].file),
                          ![s].trace = Append(@, "writeFile")]
  /\ last' = [op |-> "conv.step"]
  /\ UNCHANGED <<revision, strictMode, effects, ffmpegRef, listeners, loads, loadCalls,
                 ffmpegLoaded, videoFile, gifUrl, isConverting, progress, message,
                 fs, final>>

\* ffmpeg.exec called without await: ffmpeg.readFile is called at once
WriteFileResolvedNoAwait(s) ==
  /\ conv[s].pc = "writeFile"
  /\ fs' = [fs EXCEPT ![InputFileName(conv[s].file)] = conv[s].bytes]
  /\ message' = MsgReading
  /\ conv' = [conv EXCEPT ![s].pc = "readFile",
                          ![s].trace = @ \o <<"writeFile.ok", "exec", "readFile">>]
  /\ last' = [op |-> "conv.step"]
  /\ UNCHANGED <<revision, strictMode, effects, ffmpegRef, listeners, loads, loadCalls,
                 ffmpegLoaded, videoFile, gifUrl, isConverting, progress, final>>

\* ffmpeg.writeFile resolves: the input is in the filesystem; ffmpeg.exec is called
WriteFileResolved(s) ==
  /\ conv[s].pc = "writeFile"
  /\ fs' = [fs EXCEPT ![InputFileName(conv[s].file)] = conv[s].bytes]
  /\ message' = MsgRunning
  /\ conv' = [conv EXCEPT ![s].pc = "exec",
                          ![s].trace = @ \o <<"writeFile.ok", "exec">>]
  /\ last' = [op |-> "conv.step"]
  /\ UNCHANGED <<revision, strictMode, effects, ffmpegRef, listeners, loads, loadCalls,
                 ffmpegLoaded, videoFile, gifUrl, isConverting, progress, final>>

\* ffmpeg.exec resolves with an exit code (0: the command wrote the output file;
\* otherwise it did not); the code is not looked at; ffmpeg.readFile is called
ExecResolved(s, code) ==
  /\ conv[s].pc = "exec"
  /\ fs' = IF code = 0
           THEN [fs EXCEPT ![outputFileName] = Gif(fs[InputFileName(conv[s].file)])]
           ELSE fs
  /\ message' = MsgReading
  /\ conv' = [conv EXCEPT ![s].pc = "readFile",
                          ![s].trace = @ \o <<"exec.ok", "readFile">>]
  /\ last' = [op |-> "conv.step", code |-> code]
  /\ UNCHANGED <<revision, strictMode, effects, ffmpegRef, listeners, loads, loadCalls,
                 ffmpegLoaded, videoFile, gifUrl, isConverting, progress, final>>

\* ffmpeg.readFile resolves with the output file's content; the URL is built and
\* published; finally
ReadFileResolved(s) ==
  /\ conv[s].pc = "readFile"
  /\ fs[outputFileName] # Null
  /\ gifUrl' = BlobUrl(fs[outputFileName])
  /\ message' = MsgSuccess
  /\ FinallyBlock
  /\ conv' = [conv EXCEPT ![s].pc = "done",
                          ![s].trace = @ \o <<"readFile.ok", "createObjectURL">>]
  /\ final' = message'
  /\ last' = [op |-> "conv.ok"]
  /\ UNCHANGED <<revision, strictMode, effects, ffmpegRef, listeners, loads, loadCalls,
                 ffmpegLoaded, videoFile, fs>>

\* ffmpeg.readFile resolves, and building the URL throws e: catch, finally
CreateObjectURLThrown(s, e) ==
  /\ conv[s].pc = "readFile"
  /\ fs[outputFileName] # Null
  /\ CatchBlock(e)
  /\ FinallyBlock
  /\ conv' = [conv EXCEPT ![s].pc = "failed", ![s].error = e,
                          ![s].trace = @ \o <<"readFile.ok", "createObjectURL", "throw">>]
  /\ final' = message'
  /\ last' = [op |-> "conv.throw", error |-> e]
  /\ UNCHANGED <<revision, strictMode, effects, ffmpegRef, listeners, loads, loadCalls,
                 ffmpegLoaded, videoFile, fs>>

\* the awaited call (fetchFile, writeFile, exec or readFile) rejects with e: catch, finally
ConvThrown(s, e) ==
  /\ conv[s].pc \in {"fetchFile", "writeFile", "exec", "readFile"}
  /\ CatchBlock(e)
  /\ FinallyBlock
  /\ conv' = [conv EXCEPT ![s].pc = "failed", ![s].error = e,
                          ![s].trace = Append(@, "throw")]
  /\ final' = message'
  /\ last' = [op |-> "conv.throw", error |-> e]
  /\ UNCHANGED <<revision, strictMode, effects, ffmpegRef, listeners, loads, loadCalls,
                 ffmpegLoaded, videoFile, fs>>

Slots == 1..MaxInFlight

Next ==
  \/ Effect
  \/ \E i \in DOMAIN loads : CoreURLResolved(i)
  \/ \E i \in DOMAIN loads : WasmURLResolved(i)
  \/ \E i \in DOMAIN loads : LoadResolved(i)
  \/ \E i \in DOMAIN loads, e \in Errors : LoadThrown(i, e)
  \/ \E m \in LogMessages : LogNotification(m)
  \/ \E k \in ProgressEighths : ProgressNotification(k)
  \/ \E file \in Files \cup {Null} : HandleFileChange(file)
  \/ ConvertToGif
  \/ \E s \in Slots : FetchFileResolved(s)
  \/ \E s \in Slots : WriteFileResolved(s)
  \/ \E s \in Slots, code \in ExitCodes : ExecResolved(s, code)
  \/ \E s \in Slots : ReadFileResolved(s)
  \/ \E s \in Slots, e \in Errors : CreateObjectURLThrown(s, e)
  \/ \E s \in Slots, e \in Errors : ConvThrown(s, e)

Spec == Init /\ [][Next]_vars

\* a step of a conversion attempt: the awaited call resolves or rejects
ConvStep ==
  \E s \in Slots :
    \/ FetchFileResolved(s)
    \/ WriteFileResolved(s)
    \/ \E code \in ExitCodes : ExecResolved(s, code)
    \/ ReadFileResolved(s)
    \/ \E e \in Errors : CreateObjectURLThrown(s, e) \/ ConvThrown(s, e)

\* every call a conversion attempt awaits eventually resolves or rejects
FairSpec == Spec /\ WF_vars(ConvStep)

(***************************************************************************)
(* Properties                                                              *)
(***************************************************************************)
\* some invocation of loadFfmpeg has ended in its catch block
LoadFailed == \E i \in DOMAIN loads : loads[i].pc = "failed"

\* the text of a load failure is the message shown, in the status banner
LoadErrorShown ==
  /\ \E i \in DOMAIN loads : loads[i].pc = "failed" /\ message = MsgLoadError(loads[i].error)
  /\ StatusAlertRendered

\* a banner with variant "destructive" and title "Error" shows the message
DestructiveBannerShown ==
  \E a \in Alerts : a.variant = "destructive" /\ a.title = "Error" /\ a.description = message

\* the steps of an attempt, in the order of the code
CallOrder ==
  <<"writeFile", "writeFile.ok", "exec", "exec.ok", "readFile", "readFile.ok", "createObjectURL">>

IsPrefix(a, b) == Len(a) <= Len(b) /\ SubSeq(b, 1, Len(a)) = a

\* the steps of slot s before the throw, if there is one
StepsRun(s) ==
  IF conv[s].pc = "failed" THEN SubSeq(conv[s].trace, 1, Len(conv[s].trace) - 1)
  ELSE conv[s].trace

ConvertButtonUsable == ConvertButtonRendered /\ ~ConvertButtonDisabled

\* C1: once a loadFfmpeg invocation has thrown, in every later state
\* ffmpegLoaded is false, the file input and the Convert button are not
\* rendered and the message shown is "Error loading FFMPEG: <error>"; and
\* from then on no loadFfmpeg is started and no engine call is issued.
C1_LoadFailureTerminal ==
  [][LoadFailed' =>
       /\ ~ffmpegLoaded'
       /\ ~FileInputRendered'
       /\ ~ConvertButtonRendered'
       /\ LoadErrorShown'
       /\ LoadFailed => /\ Len(loads') = Len(loads)
                        /\ last'.op \notin {"click", "conv.step"}]_vars

\* C2: when a step of an attempt throws, the attempt ends there: nothing of
\* it runs after the throw, and in the state it leaves gifUrl is null,
\* isConverting is false and message is "Conversion error: <the error>".
C2_CatchAll ==
  /\ last.op = "conv.throw" =>
       /\ gifUrl = Null
       /\ ~isConverting
       /\ message = MsgConvError(last.error)
       /\ \E s \in Slots : conv[s].pc = "failed" /\ conv[s].error = last.error
  /\ \A s \in Slots :
       /\ conv[s].pc = "failed" <=>
            (conv[s].trace # <<>> /\ conv[s].trace[Len(conv[s].trace)] = "throw")
       /\ \A i \in 1..Len(conv[s].trace) - 1 : conv[s].trace[i] # "throw"

\* exec threw: writeFile had completed, readFile was never called
C2_Witness ==
  /\ last.op = "conv.throw"
  /\ \E s \in Slots : conv[s].trace = <<"writeFile", "writeFile.ok", "exec", "throw">>

\* C3: at most one attempt is between its start and the end of its finally
\* block; while one is, isConverting is true, the Convert button is not
\* rendered and the file input is disabled.
C3_OneAttemptInFlight ==
  /\ Cardinality(InFlight) <= 1
  /\ InFlight # {} => isConverting
  /\ isConverting => ~ConvertButtonRendered /\ ConvertButtonDisabled /\ FileInputDisabled

\* a second attempt is under way (exec called) after an earlier one ended,
\* with an engine notification delivered in between
C3_Witness ==
  /\ \E s \in Slots : conv[s].pc = "exec"
  /\ fs[outputFileName] # Null
  /\ last.op = "log"

\* C4: the steps of every attempt are a prefix of writeFile, exec, readFile,
\* each called only once the one before it has resolved; gifUrl is non-null
\* only when an attempt has run all of them; the result block is rendered
\* only when gifUrl is non-null and isConverting is false.
C4_CallOrder ==
  /\ \A s \in Slots : IsPrefix(StepsRun(s), CallOrder)
  /\ gifUrl # Null => \E s \in Slots : conv[s].pc = "done" /\ conv[s].trace = CallOrder
  /\ ResultRendered => gifUrl # Null /\ ~isConverting

\* a result is on display
C4_Witness == ResultRendered /\ gifUrl # Null /\ last.op = "conv.ok"

\* C5: the state an operation that threw leaves (the engine load, or a step
\* of a conversion attempt) renders a banner with variant "destructive" and
\* title "Error" that carries the error text.
C5_ThrownErrorShowsDestructiveBanner ==
  /\ last.op = "load.throw" => DestructiveBannerShown /\ message = MsgLoadError(last.error)
  /\ last.op = "conv.throw" => DestructiveBannerShown /\ message = MsgConvError(last.error)

\* C6: after handleFileChange with a file, videoFile is the file, gifUrl is
\* null, progress is 0, message is "Video file selected." and the Convert
\* button is rendered and enabled; the button is rendered and enabled exactly
\* when ffmpegLoaded, videoFile is non-null and isConverting is false; a
\* change event with no file changes no state.
C6_SelectingEnablesConvert ==
  [][/\ last'.op = "change" =>
          /\ videoFile' = last'.file
          /\ gifUrl' = Null
          /\ progress' = 0
          /\ message' = MsgSelected
          /\ ConvertButtonUsable'
     /\ ConvertButtonUsable' <=> (ffmpegLoaded' /\ videoFile' # Null /\ ~isConverting')
     /\ last'.op = "change.none" => UNCHANGED appState]_vars

\* a second file is selected while the result of the first is on display
C6_Witness ==
  /\ last.op = "change"
  /\ \E s \in Slots : conv[s].pc = "done" /\ conv[s].file # videoFile
  /\ ConvertButtonUsable

\* C7: loadFfmpeg is started at most once, ffmpeg.load is called at most
\* once, and once loadFfmpeg has started exactly one "log" and one
\* "progress" listener are registered.
C7_BootstrapOnce ==
  /\ Len(loads) <= 1
  /\ loadCalls <= 1
  /\ Len(loads) >= 1 => listeners.log = 1 /\ listeners.progress = 1

\* C8: every state with isConverting true is followed by one with
\* isConverting false and progress 100; isConverting becomes true only in a
\* click that passed both guards (engine loaded, file selected).
C8_AttemptEnds ==
  /\ isConverting ~> (~isConverting /\ progress = 100)
  /\ [][(~isConverting /\ isConverting') =>
          (ffmpegLoaded /\ videoFile # Null /\ last'.op = "click")]_vars

\* an attempt that failed at its first step has ended
C8_Witness ==
  /\ ~isConverting
  /\ progress = 100
  /\ \E s \in Slots : conv[s].trace = <<"throw">>

\* C9: a published gifUrl holds the output of the command run on the bytes
\* of the current videoFile, and videoFile is the file of every attempt
\* under way.
C9_ResultOfCurrentFile ==
  /\ gifUrl # Null => videoFile # Null /\ gifUrl = BlobUrl(Gif(Bytes(videoFile)))
  /\ \A s \in InFlight : conv[s].file = videoFile

\* C10: from the end of an attempt to the next file selection or Convert
\* click, message stays the attempt's final text and progress stays 100; a
\* notification changes only message (log) or progress (progress).
C10_FinalStatusStable ==
  [][/\ (final # NullText /\ final' # NullText) => (message' = final /\ progress' = 100)
     /\ final' # NullText => (message' = final' /\ progress' = 100)
     /\ last'.op = "log" => UNCHANGED <<ffmpegLoaded, videoFile, gifUrl, isConverting, progress>>
     /\ last'.op = "progress" =>
          /\ UNCHANGED <<ffmpegLoaded, videoFile, gifUrl, isConverting, message>>
          /\ \E k \in ProgressEighths : progress' = RoundPercent(k)]_vars
====
